---- MODULE Spec2Model ----
(***************************************************************************)
(* Multi-step form of the repository: the useMultiStepForm hook (the step  *)
(* form controller), the zod step schemas and the MultiStepForm component  *)
(* that drives the hook from its Next / Previous / Reset buttons; and the   *)
(* two smaller hooks, useFetch (as User renders it) and useForm (as        *)
(* LoginForm renders it), each under a specification of its own.           *)
(*                                                                         *)
(* Strings are modelled as sequences of one-character strings, so that the *)
(* schemas' length and e-mail checks are computed on the value itself.     *)
(* A FormData object is a function from field names to such values; a key  *)
(* that the object does not have is outside the function's DOMAIN.         *)
(***************************************************************************)
EXTENDS Integers, Sequences, FiniteSets, TLC

(***************************************************************************)
(* Bounds of the model.                                                    *)
(***************************************************************************)
\* how many onNext invocations may be dispatched from one render
MaxPending == 2

\* how many requests the useFetch effect may start, the one at mount included
MaxRequests == 3

(***************************************************************************)
(* Step table.                                                             *)
(***************************************************************************)
\* steps: personal, professional, billing
steps == <<"personal", "professional", "billing">>

NumSteps == Len(steps)

StepFields ==
  <<{"firstName", "lastName", "email", "phone"},
    {"company", "position", "experience", "industry"},
    {"cardNumber", "cardHolder", "expiryDate", "cvv"}>>

AllFields == UNION {StepFields[i] : i \in 1..NumSteps}

(***************************************************************************)
(* Validation: the zod schemas.                                            *)
(***************************************************************************)
\* z.string().min(n): the key is present and the string has at least n characters
MinLen(d, k, n) == k \in DOMAIN d /\ Len(d[k]) >= n

\* z.string().max(n)
MaxLen(d, k, n) == k \in DOMAIN d /\ Len(d[k]) <= n

\* z.string().email(): local@domain.tld, one "@", a non-empty local part, a
\* non-empty domain label and a top-level label of at least two characters
IsEmail(s) ==
  \E i \in 1..Len(s) :
    /\ s[i] = "@"
    /\ i > 1
    /\ \A j \in 1..Len(s) : s[j] = "@" => j = i
    /\ \E j \in (i + 2)..(Len(s) - 2) :
         /\ s[j] = "."
         /\ s[i + 1] # "."
         /\ \A m \in (j + 1)..Len(s) : s[m] # "."

ExperienceEnum == {<<"0", "-", "2">>, <<"3", "-", "5">>,
                   <<"6", "-", "1", "0">>, <<"1", "0", "+">>}

personalInfoSchema(d) ==
  /\ MinLen(d, "firstName", 1)
  /\ MinLen(d, "lastName", 1)
  /\ "email" \in DOMAIN d /\ IsEmail(d["email"])
  /\ MinLen(d, "phone", 11)

professionalInfoSchema(d) ==
  /\ MinLen(d, "company", 1)
  /\ MinLen(d, "position", 1)
  /\ "experience" \in DOMAIN d /\ d["experience"] \in ExperienceEnum
  /\ MinLen(d, "industry", 1)

billingInfoSchema(d) ==
  /\ MinLen(d, "cardNumber", 16) /\ MaxLen(d, "cardNumber", 16)
  /\ MinLen(d, "cardHolder", 1)
  /\ MinLen(d, "expiryDate", 4) /\ MaxLen(d, "expiryDate", 4)
  /\ MinLen(d, "cvv", 3) /\ MaxLen(d, "cvv", 4)

\* stepSchemas[i] applied to d; i is the 0-based step index
stepSchemas(i, d) ==
  CASE i = 0 -> personalInfoSchema(d)
    [] i = 1 -> professionalInfoSchema(d)
    [] i = 2 -> billingInfoSchema(d)
    [] OTHER -> FALSE

(***************************************************************************)
(* The controller: useMultiStepForm.  A controller state is a record       *)
(* [currentStep, formData, isSubmitted]; the functions the hook returns    *)
(* close over the values of one render (r) and queue updates that React    *)
(* applies to the state at the time they are processed (s).                *)
(***************************************************************************)
EmptyData == [k \in {} |-> <<>>]

\* the initial useState values
InitialState ==
  [currentStep |-> 0, formData |-> EmptyData, isSubmitted |-> FALSE]

\* { ...a, ...b }
Spread(a, b) ==
  [k \in (DOMAIN a) \cup (DOMAIN b) |-> IF k \in DOMAIN b THEN b[k] ELSE a[k]]

isFirstStep(s) == s.currentStep = 0

isLastStep(s) == s.currentStep = NumSteps - 1

\* what one render of the hook hands to the closures it creates
Render(s) ==
  [currentStep |-> s.currentStep,
   formData    |-> s.formData,
   isFirstStep |-> isFirstStep(s),
   isLastStep  |-> isLastStep(s),
   isSubmitted |-> s.isSubmitted]

getCurrentStepSchema(r, d) == stepSchemas(r.currentStep, d)

\* mutant: the isLastStep guard dropped
goToNextStep_unguarded(r, s) ==
  [s EXCEPT !.currentStep = @ + 1]

\* mutant: advancing only when the stored data passes the step's schema
goToNextStep_validating(r, s) ==
  IF ~r.isLastStep /\ getCurrentStepSchema(r, s.formData)
  THEN [s EXCEPT !.currentStep = @ + 1]
  ELSE s

goToNextStep(r, s) ==
  IF ~r.isLastStep THEN [s EXCEPT !.currentStep = @ + 1] ELSE s

\* mutant: going back also discards the collected data
goToPreviousStep_clearing(r, s) ==
  IF ~r.isFirstStep
  THEN [s EXCEPT !.currentStep = @ - 1, !.formData = EmptyData]
  ELSE s

goToPreviousStep(r, s) ==
  IF ~r.isFirstStep THEN [s EXCEPT !.currentStep = @ - 1] ELSE s

\* mutant: setFormData(newData), the previous object not spread
updateFormData_replace(newData, s) ==
  [s EXCEPT !.formData = newData]

\* mutant: { ...newData, ...prev }, the previous values win
updateFormData_prevWins(newData, s) ==
  [s EXCEPT !.formData = Spread(newData, @)]

updateFormData(newData, s) ==
  [s EXCEPT !.formData = Spread(@, newData)]

\* mutant: the submitted data is also stored
submitForm_storing(data, s) ==
  [s EXCEPT !.isSubmitted = TRUE, !.formData = Spread(@, data)]

\* mutant: setIsSubmitted((prev) => !prev)
submitForm_toggle(data, s) ==
  [s EXCEPT !.isSubmitted = ~@]

\* logs data and sets the flag; data is not stored
submitForm(data, s) ==
  [s EXCEPT !.isSubmitted = TRUE]

\* mutant: setFormData({}) forgotten
resetForm_keepData(s) ==
  [s EXCEPT !.currentStep = 0, !.isSubmitted = FALSE]

resetForm(s) ==
  [s EXCEPT !.formData = EmptyData, !.currentStep = 0, !.isSubmitted = FALSE]

(***************************************************************************)
(* The orchestrator: MultiStepForm.                                        *)
(***************************************************************************)
\* mutant: the validation result is always true
trigger_always(r, data) == TRUE

\* trigger(): the form's values checked by the resolver of the render
trigger(r, data) == getCurrentStepSchema(r, data)

\* mutant: the submit / advance branches swapped
onNext_swapped(r, data, s) ==
  IF ~trigger(r, data)
  THEN s
  ELSE LET updatedData == Spread(r.formData, data)
           merged      == updateFormData(updatedData, s)
       IN  IF ~r.isLastStep
           THEN submitForm(updatedData, merged)
           ELSE goToNextStep(r, merged)

\* mutant: the data is stored before the validation result is looked at
onNext_mergeFirst(r, data, s) ==
  LET updatedData == Spread(r.formData, data)
      merged      == updateFormData(updatedData, s)
  IN  IF ~trigger(r, data)
      THEN merged
      ELSE IF r.isLastStep
           THEN submitForm(updatedData, merged)
           ELSE goToNextStep(r, merged)

\* mutant: the last step stores its data but the submit call is missing
onNext_noSubmit(r, data, s) ==
  IF ~trigger(r, data)
  THEN s
  ELSE LET updatedData == Spread(r.formData, data)
           merged      == updateFormData(updatedData, s)
       IN  IF r.isLastStep
           THEN merged
           ELSE goToNextStep(r, merged)

\* mutant: a valid step advances without its data being stored
onNext_noMerge(r, data, s) ==
  IF ~trigger(r, data)
  THEN s
  ELSE IF r.isLastStep
       THEN submitForm(Spread(r.formData, data), s)
       ELSE goToNextStep(r, s)

\* the part of onNext after `await trigger()`
onNext(r, data, s) ==
  IF ~trigger(r, data)
  THEN s
  ELSE LET updatedData == Spread(r.formData, data)
           merged      == updateFormData(updatedData, s)
       IN  IF r.isLastStep
           THEN submitForm(updatedData, merged)
           ELSE goToNextStep(r, merged)

\* mutant: going back only when the stored data passes the step's schema
onPrevious_gated(r, s) ==
  IF getCurrentStepSchema(r, s.formData) THEN goToPreviousStep(r, s) ELSE s

onPrevious(r, s) == goToPreviousStep(r, s)

(***************************************************************************)
(* Inputs: what a user can have typed into a step's fields, and what a     *)
(* caller can pass to updateFormData / submitForm.                         *)
(***************************************************************************)
DigitChar == <<"0", "1", "2", "3", "4", "5", "6", "7", "8", "9">>

\* "01234567890": 11 digits
Phone11 == [i \in 1..11 |-> DigitChar[((i - 1) % 10) + 1]]

\* "1234567812345678": 16 digits
Card16 == [i \in 1..16 |-> DigitChar[((i - 1) % 8) + 2]]

PersonalA ==
  [firstName |-> <<"A">>, lastName |-> <<"B">>,
   email |-> <<"a", "@", "b", ".", "c", "o", "m">>, phone |-> Phone11]

PersonalC == [PersonalA EXCEPT !.firstName = <<"C">>]

PersonalD == [PersonalA EXCEPT !.lastName = <<"D">>]

\* phone of 4 characters: fails min(11)
PersonalShortPhone == [PersonalA EXCEPT !.phone = <<"0", "1", "2", "3">>]

\* "a.b@c": no top-level label after the "@"
PersonalBadEmail == [PersonalA EXCEPT !.email = <<"a", ".", "b", "@", "c">>]

\* only one field filled in
NameOnly == [firstName |-> <<"C">>]

ProfessionalX ==
  [company |-> <<"X">>, position |-> <<"Y">>,
   experience |-> <<"0", "-", "2">>, industry |-> <<"Z">>]

ProfessionalSenior == [ProfessionalX EXCEPT !.experience = <<"1", "0", "+">>]

\* the Select was never touched: no experience value
ProfessionalNoExperience ==
  [company |-> <<"X">>, position |-> <<"Y">>, industry |-> <<"Z">>]

\* the company input left empty
ProfessionalNoCompany == [ProfessionalX EXCEPT !.company = <<>>]

BillingA ==
  [cardNumber |-> Card16, cardHolder |-> <<"A", " ", "B">>,
   expiryDate |-> <<"1", "2", "2", "5">>, cvv |-> <<"1", "2", "3">>]

BillingCvv4 == [BillingA EXCEPT !.cvv = <<"1", "2", "3", "4">>]

\* 15 digits: fails min(16)
BillingShortCard == [BillingA EXCEPT !.cardNumber = SubSeq(Card16, 1, 15)]

\* 5 characters: fails max(4)
BillingLongExpiry ==
  [BillingA EXCEPT !.expiryDate = <<"1", "2", "2", "0", "5">>]

\* StepInputs[i + 1]: the inputs for the fields of step i
StepInputs ==
  <<{PersonalA, PersonalC, PersonalD, PersonalShortPhone, PersonalBadEmail, NameOnly},
    {ProfessionalX, ProfessionalSenior, ProfessionalNoExperience,
     ProfessionalNoCompany},
    {BillingA, BillingCvv4, BillingShortCard, BillingLongExpiry}>>

AllInputs == UNION {StepInputs[i] : i \in 1..NumSteps}

\* what the form can hold at step i: the component renders fields for the
\* steps 0, 1 and 2 only
InputsAt(i) == IF i \in 0..(NumSteps - 1) THEN StepInputs[i + 1] ELSE {}

(***************************************************************************)
(* The spec's three-step scenario, as a script of controller operations.   *)
(***************************************************************************)
Script ==
  <<[op |-> "updateFormData", arg |-> PersonalA],
    [op |-> "goToNextStep", arg |-> EmptyData],
    [op |-> "goToPreviousStep", arg |-> EmptyData],
    [op |-> "goToNextStep", arg |-> EmptyData],
    [op |-> "updateFormData", arg |-> ProfessionalX],
    [op |-> "goToNextStep", arg |-> EmptyData],
    [op |-> "submitForm", arg |-> BillingA],
    [op |-> "resetForm", arg |-> EmptyData]>>

\* how far the operations since the initial state have followed the script:
\* k after its first k operations, -1 once they have left it; resetForm
\* leads to the initial state, from which the script can start again
ScriptStep(k, op, arg) ==
  LET at == IF k = Len(Script) THEN 0 ELSE k
  IN  IF at >= 0 /\ Script[at + 1] = [op |-> op, arg |-> arg]
      THEN at + 1
      ELSE IF op = "resetForm" THEN 0 ELSE -1

(***************************************************************************)
(* The data-fetch hook: useFetch, as the User component uses it.           *)
(***************************************************************************)
Null == [kind |-> "null"]

Urls == {"/users/1", "/users/2"}

\* the url the User component passes
UserUrl == "/users/1"

\* the useState values of useFetch at mount
InitialFetch == [data |-> Null, error |-> Null, loading |-> TRUE]

\* the body that request q's response carries
Json(q) == [kind |-> "json", url |-> q.url, req |-> q.id]

\* the exception of a request that failed
Err(q) == [kind |-> "error", url |-> q.url, req |-> q.id]

\* mutant: the effect's cleanup aborts the requests still in flight
useFetch_effect_aborting(u, id, reqs) ==
  <<[id |-> id, url |-> u]>>

\* useEffect(..., [url]): fetchData() is called, up to `await fetch(url)`;
\* reqs are the requests in flight
useFetch_effect(u, id, reqs) ==
  Append(reqs, [id |-> id, url |-> u])

\* fetchData after both awaits resolved: setData(json), then finally
fetchData_resolve(q, f) ==
  [f EXCEPT !.data = Json(q), !.loading = FALSE]

\* fetchData when fetch or res.json() rejected: setError(err), then finally
fetchData_reject(q, f) ==
  [f EXCEPT !.error = Err(q), !.loading = FALSE]

(***************************************************************************)
(* The generic form hook: useForm, as LoginForm uses it.                   *)
(***************************************************************************)
initialValues == [email |-> "", password |-> ""]

InputNames == DOMAIN initialValues

\* what a user can have typed into an input
TypedValues == {"", "a", "ab", "abc"}

\* mutant: ({ [name]: value }), the previous values not spread
useForm_handleChange_replace(name, value, prev) ==
  [k \in {name} |-> value]

\* setValues((prev) => ({ ...(prev ?? initialValues), [name]: value }))
useForm_handleChange(name, value, prev) ==
  [k \in (DOMAIN prev) \cup {name} |-> IF k = name THEN value ELSE prev[k]]

\* handleSubmit: callback(values); the state is not written
useForm_handleSubmit(v) == v

\* setValues(initialValues)
useForm_resetForm(prev) == initialValues

(***************************************************************************)
(* State.                                                                  *)
(***************************************************************************)
VARIABLES
  currentStep,  \* useState(0)
  formData,     \* useState({})
  isSubmitted,  \* useState(false)
  pending,      \* onNext invocations that are awaiting trigger()
  batch,        \* the invocations dispatched since the last idle state
  scen,         \* history: progress along Script
  url,          \* useFetch: the url argument of the latest render
  fetch,        \* useFetch: [data, error, loading]
  requests,     \* useFetch: the fetchData calls awaiting their response
  started,      \* useFetch: how many fetchData calls the effect has made
  values,       \* useForm: useState(initialValues)
  lastOp,       \* history: the operation that produced this state
  lastArg,      \* history: its argument
  pre           \* history: the controller state it acted on

fetchVars == <<url, fetch, requests, started>>

vars ==
  <<currentStep, formData, isSubmitted, pending, batch, scen, fetchVars,
    values, lastOp, lastArg, pre>>

\* the controller state as a record
State ==
  [currentStep |-> currentStep, formData |-> formData,
   isSubmitted |-> isSubmitted]

NoArg == EmptyData

NoBatch == [base |-> InitialState, calls |-> <<>>]

Init ==
  /\ currentStep = InitialState.currentStep
  /\ formData = InitialState.formData
  /\ isSubmitted = InitialState.isSubmitted
  /\ pending = <<>>
  /\ batch = NoBatch
  /\ scen = 0
  /\ url = UserUrl
  /\ fetch = InitialFetch
  /\ requests = useFetch_effect(UserUrl, 1, <<>>)
  /\ started = 1
  /\ values = initialValues
  /\ lastOp = "init"
  /\ lastArg = NoArg
  /\ pre = InitialState

\* commit the state s as the result of operation op(arg)
Commit(op, arg, s) ==
  /\ currentStep' = s.currentStep
  /\ formData' = s.formData
  /\ isSubmitted' = s.isSubmitted
  /\ lastOp' = op
  /\ lastArg' = arg
  /\ pre' = State
  /\ scen' = ScriptStep(scen, op, arg)
  /\ UNCHANGED <<fetchVars, values>>

(***************************************************************************)
(* Spec: the controller's operations, called in any order, each from the   *)
(* render of the state it acts on.                                         *)
(***************************************************************************)
CallGoToNextStep ==
  /\ Commit("goToNextStep", NoArg, goToNextStep(Render(State), State))
  /\ UNCHANGED <<pending, batch>>

CallGoToPreviousStep ==
  /\ Commit("goToPreviousStep", NoArg, goToPreviousStep(Render(State), State))
  /\ UNCHANGED <<pending, batch>>

CallUpdateFormData ==
  \E newData \in AllInputs :
    /\ Commit("updateFormData", newData, updateFormData(newData, State))
    /\ UNCHANGED <<pending, batch>>

CallSubmitForm ==
  \E data \in AllInputs :
    /\ Commit("submitForm", data, submitForm(data, State))
    /\ UNCHANGED <<pending, batch>>

CallResetForm ==
  /\ Commit("resetForm", NoArg, resetForm(State))
  /\ UNCHANGED <<pending, batch>>

Next ==
  \/ CallGoToNextStep
  \/ CallGoToPreviousStep
  \/ CallUpdateFormData
  \/ CallSubmitForm
  \/ CallResetForm

Spec == Init /\ [][Next]_vars

(***************************************************************************)
(* SpecForm: the MultiStepForm component driven by its buttons, one click  *)
(* handled to completion before the next.  While isSubmitted is false the  *)
(* component renders the Previous button (disabled on the first step) and  *)
(* the Next/Submit button; once isSubmitted is true it renders only the    *)
(* "Submit Another Form" button.                                           *)
(***************************************************************************)
\* Next/Submit button: handleSubmit(onNext) with the values typed into the
\* fields of the current step
ClickNext ==
  /\ ~isSubmitted
  /\ pending = <<>>
  /\ \E data \in InputsAt(currentStep) :
       Commit("onNext", data, onNext(Render(State), data, State))
  /\ batch' = NoBatch
  /\ UNCHANGED pending

\* Previous button, disabled={isFirstStep}; typed is what the fields of the
\* current step hold when it is clicked, which onPrevious does not look at
ClickPrevious ==
  /\ ~isSubmitted
  /\ ~isFirstStep(State)
  /\ pending = <<>>
  /\ \E typed \in InputsAt(currentStep) :
       Commit("onPrevious", typed, onPrevious(Render(State), State))
  /\ batch' = NoBatch
  /\ UNCHANGED pending

\* "Submit Another Form" button of the success screen
ClickReset ==
  /\ isSubmitted
  /\ pending = <<>>
  /\ Commit("resetForm", NoArg, resetForm(State))
  /\ batch' = NoBatch
  /\ UNCHANGED pending

NextForm ==
  \/ ClickNext
  \/ ClickPrevious
  \/ ClickReset

SpecForm == Init /\ [][NextForm]_vars

(***************************************************************************)
(* SpecOverlap: as SpecForm, but onNext is the async function it is: the   *)
(* click creates an invocation that holds the closure of the render it was *)
(* dispatched from and awaits trigger(); the rest of onNext runs when the  *)
(* validation has settled.  Up to MaxPending invocations are dispatched    *)
(* while an earlier one is still awaiting (the button is not disabled).    *)
(***************************************************************************)
\* the click: onNext up to `await trigger()`
NextStart ==
  /\ ~isSubmitted
  /\ pending = <<>> \/ Len(batch.calls) < MaxPending
  /\ \E data \in InputsAt(currentStep) :
       /\ pending' = Append(pending, [r |-> Render(State), data |-> data])
       /\ batch' = IF pending = <<>>
                   THEN [base |-> State, calls |-> <<data>>]
                   ELSE [batch EXCEPT !.calls = Append(@, data)]
       /\ Commit("click", data, State)

\* the validation of one awaiting invocation settles: the rest of onNext
NextSettle ==
  \E i \in 1..Len(pending) :
    /\ Commit("onNext", pending[i].data,
              onNext(pending[i].r, pending[i].data, State))
    /\ pending' = SubSeq(pending, 1, i - 1) \o SubSeq(pending, i + 1, Len(pending))
    /\ UNCHANGED batch

NextOverlap ==
  \/ NextStart
  \/ NextSettle
  \/ ClickPrevious
  \/ ClickReset

SpecOverlap == Init /\ [][NextOverlap]_vars

(***************************************************************************)
(* SpecFetch: a component that renders useFetch(url), re-rendered with the *)
(* same or another url while responses arrive in any order.                *)
(***************************************************************************)
formVars == <<currentStep, formData, isSubmitted, pending, batch, scen>>

FetchState == [url |-> url, fetch |-> fetch, requests |-> requests]

WithoutIndex(seq, i) == SubSeq(seq, 1, i - 1) \o SubSeq(seq, i + 1, Len(seq))

\* a render with the url u; the effect runs again only when u differs from
\* the url of the previous render
RenderWithUrl ==
  \E u \in Urls :
    /\ u = url \/ started < MaxRequests
    /\ url' = u
    /\ IF u # url
       THEN /\ requests' = useFetch_effect(u, started + 1, requests)
            /\ started' = started + 1
       ELSE UNCHANGED <<requests, started>>
    /\ lastOp' = "render"
    /\ lastArg' = [url |-> u]
    /\ pre' = FetchState
    /\ UNCHANGED <<fetch, formVars, values>>

\* the response of one request in flight arrives and its body parses
FetchResolve ==
  \E i \in 1..Len(requests) :
    /\ fetch' = fetchData_resolve(requests[i], fetch)
    /\ requests' = WithoutIndex(requests, i)
    /\ lastOp' = "fetchResolve"
    /\ lastArg' = requests[i]
    /\ pre' = FetchState
    /\ UNCHANGED <<url, started, formVars, values>>

\* fetch(url) or res.json() of one request in flight rejects
FetchReject ==
  \E i \in 1..Len(requests) :
    /\ fetch' = fetchData_reject(requests[i], fetch)
    /\ requests' = WithoutIndex(requests, i)
    /\ lastOp' = "fetchReject"
    /\ lastArg' = requests[i]
    /\ pre' = FetchState
    /\ UNCHANGED <<url, started, formVars, values>>

NextFetch ==
  \/ RenderWithUrl
  \/ FetchResolve
  \/ FetchReject

SpecFetch == Init /\ [][NextFetch]_vars

(***************************************************************************)
(* SpecLogin: the LoginForm component driving useForm.                     *)
(***************************************************************************)
\* an input's onChange={handleChange}
ChangeInput ==
  \E name \in InputNames, value \in TypedValues :
    /\ values' = useForm_handleChange(name, value, values)
    /\ lastOp' = "handleChange"
    /\ lastArg' = [name |-> name, value |-> value]
    /\ pre' = values
    /\ UNCHANGED <<formVars, fetchVars>>

\* the Submit button: the form's onSubmit={handleSubmit}
SubmitLogin ==
  /\ values' = useForm_handleSubmit(values)
  /\ lastOp' = "handleSubmit"
  /\ lastArg' = values
  /\ pre' = values
  /\ UNCHANGED <<formVars, fetchVars>>

\* the Reset button: onClick calls resetForm(); the button has no type, so
\* the click also submits the form
ClickLoginReset ==
  /\ values' = useForm_handleSubmit(useForm_resetForm(values))
  /\ lastOp' = "useForm.resetForm"
  /\ lastArg' = values
  /\ pre' = values
  /\ UNCHANGED <<formVars, fetchVars>>

NextLogin ==
  \/ ChangeInput
  \/ SubmitLogin
  \/ ClickLoginReset

SpecLogin == Init /\ [][NextLogin]_vars

(***************************************************************************)
(* Properties.  lastOp, lastArg and pre record the operation that produced *)
(* the current state, so that the effect of one operation is a state       *)
(* predicate.                                                              *)
(***************************************************************************)
LastIndex == NumSteps - 1

\* every key of b is in a with the same value
Contains(a, b) == \A k \in DOMAIN b : k \in DOMAIN a /\ a[k] = b[k]

C2_SubmittedOnlyFromLastStep ==
  isSubmitted =>
    /\ currentStep = LastIndex
    /\ lastOp = "onNext"
    /\ pre.currentStep = LastIndex
    /\ ~pre.isSubmitted
    /\ stepSchemas(pre.currentStep, lastArg)

\* C2 witness: the form has been submitted
C2_Witness ==
  /\ isSubmitted
  /\ lastOp = "onNext"
  /\ pre.currentStep = LastIndex

\* C3: a Next whose data fails the current step's schema leaves currentStep,
\* formData and isSubmitted as they were.
C3_FailedValidationTouchesNothing ==
  (lastOp = "onNext" /\ ~stepSchemas(pre.currentStep, lastArg)) =>
    /\ currentStep = pre.currentStep
    /\ formData = pre.formData
    /\ isSubmitted = pre.isSubmitted

\* C3 witness: an invalid Next on a later step, with data already collected
\* and the invalid input differing from what is stored
C3_Witness ==
  /\ lastOp = "onNext"
  /\ ~stepSchemas(pre.currentStep, lastArg)
  /\ pre.currentStep > 0
  /\ pre.formData # EmptyData
  /\ ~Contains(pre.formData, lastArg)

\* one Next of a sequential execution: one click handled to completion on
\* the form as rendered for s (the success screen has no Next button)
SequentialNext(s, data) ==
  IF s.isSubmitted THEN s ELSE onNext(Render(s), data, s)

RECURSIVE RunSequential(_, _)
RunSequential(s, calls) ==
  IF calls = <<>>
  THEN s
  ELSE RunSequential(SequentialNext(s, Head(calls)), Tail(calls))

PermsOf(n) == {f \in [1..n -> 1..n] : \A i, j \in 1..n : f[i] = f[j] => i = j}

\* C4: when Next invocations that overlapped have all settled, the
\* controller is in a state that running the same invocations one after
\* the other, in some order, also produces.
C4_OverlapIsSerializable ==
  (pending = <<>> /\ Len(batch.calls) >= 2) =>
    \E f \in PermsOf(Len(batch.calls)) :
      State = RunSequential(batch.base,
                            [i \in 1..Len(batch.calls) |-> batch.calls[f[i]]])

\* C5: resetForm, called in any state, yields the initial state.
C5_ResetYieldsInitialState ==
  lastOp = "resetForm" =>
    /\ currentStep = 0
    /\ formData = EmptyData
    /\ isSubmitted = FALSE
    /\ State = InitialState

\* C5 witness: resetForm acted on a submitted form on the last step with
\* data of all three steps
C5_Witness ==
  /\ lastOp = "resetForm"
  /\ pre.isSubmitted
  /\ pre.currentStep = LastIndex
  /\ DOMAIN pre.formData = AllFields

\* C6: goToPreviousStep (onPrevious) changes neither formData nor
\* isSubmitted.
C6_RetreatKeepsDataAndFlag ==
  lastOp \in {"goToPreviousStep", "onPrevious"} =>
    /\ formData = pre.formData
    /\ isSubmitted = pre.isSubmitted

\* C6 witness: a retreat that did move, from a submitted state with data
C6_Witness ==
  /\ lastOp = "goToPreviousStep"
  /\ currentStep = pre.currentStep - 1
  /\ pre.isSubmitted
  /\ pre.formData # EmptyData

\* C7: every operation other than resetForm keeps every key that formData
\* had; only resetForm removes keys.
C7_KeysPersistUntilReset ==
  lastOp # "resetForm" => DOMAIN pre.formData \subseteq DOMAIN formData

\* C7 witness: updateFormData acted on a formData with keys that its
\* argument does not have
C7_Witness ==
  /\ lastOp = "updateFormData"
  /\ (DOMAIN pre.formData) \ (DOMAIN lastArg) # {}
  /\ (DOMAIN lastArg) \ (DOMAIN pre.formData) # {}

\* C8: updateFormData(partial) makes formData the shallow merge of the
\* previous formData and partial, partial's values winning; merging a
\* partial into a formData that already holds it changes nothing.
C8_MergeIsShallowAndIdempotent ==
  lastOp = "updateFormData" =>
    /\ DOMAIN formData = (DOMAIN pre.formData) \cup (DOMAIN lastArg)
    /\ \A k \in DOMAIN lastArg : formData[k] = lastArg[k]
    /\ \A k \in (DOMAIN pre.formData) \ (DOMAIN lastArg) :
         formData[k] = pre.formData[k]
    /\ Contains(pre.formData, lastArg) => formData = pre.formData

\* C8 witness: the partial overwrote a stored value and other keys were kept
C8_Witness ==
  /\ lastOp = "updateFormData"
  /\ \E k \in (DOMAIN lastArg) \cap (DOMAIN pre.formData) :
       pre.formData[k] # lastArg[k]
  /\ (DOMAIN pre.formData) \ (DOMAIN lastArg) # {}

\* C9 as stated: submitForm(final) merges final into formData and sets
\* isSubmitted, so every key of final is in formData afterwards.
C9_SubmitMergesFinal ==
  lastOp = "submitForm" =>
    /\ isSubmitted
    /\ formData = Spread(pre.formData, lastArg)
    /\ DOMAIN lastArg \subseteq DOMAIN formData

\* C9 amended: submitForm(final) sets isSubmitted and leaves formData and
\* currentStep as they were.
C9_SubmitOnlySetsFlag ==
  lastOp = "submitForm" =>
    /\ isSubmitted
    /\ formData = pre.formData
    /\ currentStep = pre.currentStep

\* C9 witness: submitForm was handed data that formData does not hold
C9_Witness ==
  /\ lastOp = "submitForm"
  /\ ~pre.isSubmitted
  /\ ~Contains(pre.formData, lastArg)

\* C10: from a submitted state every operation but resetForm leaves
\* isSubmitted true, and resetForm leads to step 0, not submitted.
C10_SubmittedUntilReset ==
  pre.isSubmitted =>
    IF lastOp = "resetForm"
    THEN ~isSubmitted /\ currentStep = 0
    ELSE isSubmitted

\* C10 witness: submitForm called again on a submitted form
C10_Witness ==
  /\ pre.isSubmitted
  /\ lastOp = "submitForm"
  /\ isSubmitted

\* C11: goToNextStep on the last step and goToPreviousStep on step 0 leave
\* the controller state as it was; on any other step goToNextStep adds
\* exactly 1 and goToPreviousStep subtracts exactly 1, whatever formData
\* holds (goToNextStep does not validate), and nothing else changes.
C11_AdvanceRetreatStepByOne ==
  /\ lastOp = "goToNextStep" =>
       /\ currentStep = IF pre.currentStep = LastIndex
                        THEN pre.currentStep
                        ELSE pre.currentStep + 1
       /\ formData = pre.formData
       /\ isSubmitted = pre.isSubmitted
  /\ lastOp = "goToPreviousStep" =>
       /\ currentStep = IF pre.currentStep = 0
                        THEN pre.currentStep
                        ELSE pre.currentStep - 1
       /\ formData = pre.formData
       /\ isSubmitted = pre.isSubmitted

\* C11 witness: goToNextStep moved off a step whose stored data does not
\* pass that step's schema
C11_Witness ==
  /\ lastOp = "goToNextStep"
  /\ currentStep = pre.currentStep + 1
  /\ pre.formData # EmptyData
  /\ ~stepSchemas(pre.currentStep, pre.formData)

\* the keys of step j (0-based) that d holds
StepKeysIn(j, d) == (DOMAIN d) \cap StepFields[j + 1]

\* C12: with the form driven by its buttons, formData holds for each step
\* either all of the step's fields, passing the step's schema, or none.
C12_StepDataAllOrNothing ==
  \A j \in 0..LastIndex :
    \/ StepKeysIn(j, formData) = {}
    \/ /\ StepKeysIn(j, formData) = StepFields[j + 1]
       /\ stepSchemas(j, formData)

\* C12 witness: a Next with partly filled billing fields was refused while
\* the two earlier steps are stored and the billing step is not
C12_Witness ==
  /\ lastOp = "onNext"
  /\ pre.currentStep = LastIndex
  /\ ~stepSchemas(LastIndex, lastArg)
  /\ StepKeysIn(0, formData) = StepFields[1]
  /\ StepKeysIn(1, formData) = StepFields[2]
  /\ StepKeysIn(LastIndex, formData) = {}

\* the number of keys formData holds
KeyCount == Cardinality(DOMAIN formData)

\* the scenario's checkpoints before and after its submit
ScenarioOutsideSubmit ==
  /\ scen = 1 => currentStep = 0 /\ formData = PersonalA
  /\ scen = 2 => currentStep = 1 /\ KeyCount = 4 /\ formData = PersonalA
  /\ scen = 3 => currentStep = 0 /\ KeyCount = 4 /\ formData = PersonalA
  /\ scen = 4 => currentStep = 1 /\ formData = PersonalA
  /\ scen = 5 => currentStep = 1 /\ KeyCount = 8
  /\ scen = 6 => currentStep = 2 /\ KeyCount = 8
                 /\ formData = Spread(PersonalA, ProfessionalX)
  /\ scen \in 1..6 => ~isSubmitted
  /\ scen = 8 => currentStep = 0 /\ formData = EmptyData /\ ~isSubmitted

\* C13 as stated: the scenario holds step by step, and its submit of the 4
\* billing fields gives isSubmitted = true with 12 keys in formData.
C13_ScenarioAsStated ==
  /\ ScenarioOutsideSubmit
  /\ scen = 7 => isSubmitted /\ KeyCount = 12

\* C13 amended: the scenario holds step by step, but its submit gives
\* isSubmitted = true with formData still holding the 8 keys of the first
\* two steps, on step 2.
C13_ScenarioWithEightKeys ==
  /\ ScenarioOutsideSubmit
  /\ scen = 7 => /\ isSubmitted
                 /\ currentStep = 2
                 /\ KeyCount = 8
                 /\ formData = Spread(PersonalA, ProfessionalX)

\* C13 witness: the whole script has run, up to and including its reset
C13_Witness ==
  /\ scen = Len(Script)
  /\ lastOp = "resetForm"
  /\ pre.isSubmitted
  /\ pre.currentStep = 2

\* C14: on every step i > 0 of the form that is not submitted the Previous
\* button is offered and moves to step i - 1 whether or not the values in
\* the step's fields pass its schema; a Next changes the step only when
\* they do.
C14_NoValidationGateBackward ==
  /\ (~isSubmitted /\ currentStep > 0 /\ pending = <<>>) =>
       ENABLED ClickPrevious
  /\ lastOp = "onPrevious" =>
       /\ pre.currentStep > 0
       /\ currentStep = pre.currentStep - 1
  /\ (lastOp = "onNext" /\ currentStep # pre.currentStep) =>
       /\ stepSchemas(pre.currentStep, lastArg)
       /\ currentStep = pre.currentStep + 1

\* C14 witness: Previous moved back from the last step while its fields
\* held values that fail the billing schema
C14_Witness ==
  /\ lastOp = "onPrevious"
  /\ pre.currentStep = LastIndex
  /\ ~stepSchemas(pre.currentStep, lastArg)
  /\ currentStep = LastIndex - 1

\* C15: the effect starts one request for each new url value and cancels
\* none; a response that arrives is written to data whichever url it was
\* requested for, so the response written last determines data.
C15_LastWriteWins ==
  /\ lastOp = "render" =>
       requests = IF url # pre.url
                  THEN Append(pre.requests, [id |-> started, url |-> url])
                  ELSE pre.requests
  /\ lastOp = "fetchResolve" =>
       /\ fetch.data = Json(lastArg)
       /\ \E i \in 1..Len(pre.requests) :
            /\ pre.requests[i] = lastArg
            /\ requests = WithoutIndex(pre.requests, i)
  /\ lastOp = "fetchReject" =>
       \E i \in 1..Len(pre.requests) :
         /\ pre.requests[i] = lastArg
         /\ requests = WithoutIndex(pre.requests, i)

\* C15 witness: data held the response for the current url and the response
\* of a superseded request, for another url, has overwritten it
C15_Witness ==
  /\ lastOp = "fetchResolve"
  /\ lastArg.url # url
  /\ pre.fetch.data.kind = "json"
  /\ pre.fetch.data.url = url
  /\ fetch.data.url # url

\* how many button clicks the state s is away from the initial state, at
\* most: the remaining valid Nexts up to the submit, then the reset
StepsToInitial(s) ==
  IF s = InitialState THEN 0
  ELSE IF s.isSubmitted THEN 1
  ELSE 1 + (NumSteps - s.currentStep)

\* C16: no state of the form is a dead end: in every reachable state other
\* than the initial one, some button the form offers leads to a state that
\* is closer to the initial state, so a finite sequence of valid Next,
\* Previous and Reset clicks leads back to it.
C16_EveryStateRecoverable ==
  /\ StepsToInitial(State) \in 0..(NumSteps + 1)
  /\ State # InitialState =>
       ENABLED (NextForm /\ StepsToInitial(State') < StepsToInitial(State))

\* C16 witness: back on step 0 by Previous with data stored: not the
\* initial state, and no Reset button is offered
C16_Witness ==
  /\ lastOp = "onPrevious"
  /\ currentStep = 0
  /\ formData # EmptyData
  /\ ~isSubmitted

CurrentRequestInFlight ==
  \E i \in 1..Len(requests) : requests[i].id = started

\* C18: loading is true exactly while the request for the current url has
\* not settled; a response that arrives sets data and error stays null; a
\* failure sets error and leaves data as it was.
C18_LoadingTracksCurrentRequest ==
  /\ fetch.loading <=> CurrentRequestInFlight
  /\ lastOp = "fetchResolve" =>
       fetch.data = Json(lastArg) /\ fetch.error = Null
  /\ lastOp = "fetchReject" =>
       fetch.error = Err(lastArg) /\ fetch.data = pre.fetch.data

\* C19: resetForm sets values to initialValues whatever was typed before;
\* handleChange(name, value) sets the field name to value and leaves every
\* other field as it was.
C19_ChangeOneFieldResetAll ==
  /\ lastOp = "useForm.resetForm" => values = initialValues
  /\ lastOp = "handleChange" =>
       /\ DOMAIN values = (DOMAIN pre) \cup {lastArg.name}
       /\ values[lastArg.name] = lastArg.value
       /\ \A k \in (DOMAIN pre) \ {lastArg.name} : values[k] = pre[k]

\* C19 witness: resetForm acted after both fields had been changed
C19_Witness ==
  /\ lastOp = "useForm.resetForm"
  /\ pre.email # initialValues.email
  /\ pre.password # initialValues.password
  /\ values = initialValues

====
